---- MODULE Spec2Model ----
(***************************************************************************)
(* Model of the Tauri backend of simple-todo (src-tauri/src/main.rs):      *)
(* the data-directory move (move_data, copy_dir_all), the JSON stores      *)
(* (todos.json, content.json, config.json), create_todo_folder and the     *)
(* Windows icon lookup (get_file_icon), over an explicit file system.      *)
(*                                                                         *)
(* A path is a sequence of names; <<>> stands for the empty string "".     *)
(* The file system fs maps every existing path to a node: a directory, or  *)
(* a file with its data (a sequence of symbols).                           *)
(***************************************************************************)
EXTENDS Integers, Sequences, FiniteSets, TLC

VARIABLES
  fs,        \* the file system: [existing paths -> node]
  pc,        \* position inside the running move_data ("idle" when none runs)
  old_path,  \* move_data's argument old_path
  new_path,  \* move_data's argument new_path
  iter,      \* move_data: the read_dir(old_p) iterator of the for loop
  entry,     \* move_data: the entry (name) the loop body is working on
  stack,     \* copy_dir_all: the frames of the recursion, innermost last
  result,    \* what the last finished move_data returned
  calls,     \* how many times move_data has been invoked
  failures,  \* how many of these invocations returned an error
  fsCall,    \* the file system when the current/last move_data was invoked
  fs0,       \* the file system before the first invocation
  ret,       \* the last store / icon command and what it returned
  temp,      \* icon lookup: the placeholders present in env::temp_dir()
  iconCall   \* icon lookup: what the last get_file_icon call saw and did

vars == <<fs, pc, old_path, new_path, iter, entry, stack, result, calls, failures,
          fsCall, fs0, ret, temp, iconCall>>

-----------------------------------------------------------------------------
(* Bounds of the model *)

\* Longest path the file system accepts (the OS path-length limit, in names).
MaxDepth == 5

\* How many times move_data is invoked in one behaviour (first call + retries).
MaxCalls == 2

-----------------------------------------------------------------------------
(* The file system *)

DirNode == [kind |-> "dir", data |-> <<>>]

FileNode(d) == [kind |-> "file", data |-> d]

Exists(f, p) == p \in DOMAIN f

IsDir(f, p) == p \in DOMAIN f /\ f[p].kind = "dir"

IsFile(f, p) == p \in DOMAIN f /\ f[p].kind = "file"

Prefix(p, k) == SubSeq(p, 1, k)

Parent(p) == SubSeq(p, 1, Len(p) - 1)

\* q lies strictly below p
IsUnder(q, p) == Len(q) > Len(p) /\ SubSeq(q, 1, Len(p)) = p

\* Path::join
Join(p, name) == Append(p, name)

\* the names read_dir(p) can list
ChildNames(f, p) == { q[Len(p) + 1] : q \in { r \in DOMAIN f : Len(r) = Len(p) + 1 /\ IsUnder(r, p) } }

\* the parent of p is a directory (a top-level path lies in the always-present root)
ParentIsDir(f, p) == Len(p) >= 1 /\ (Len(p) = 1 \/ IsDir(f, Parent(p)))

\* f with every path of `paths` set to node n
Put(f, paths, n) == [q \in DOMAIN f \cup paths |-> IF q \in paths THEN n ELSE f[q]]

\* f without the paths of `paths`
Drop(f, paths) == [q \in DOMAIN f \ paths |-> f[q]]

\* fs::create_dir_all(p) can succeed: no component of p is a file and p is not too long
CanCreateDirAll(f, p) ==
  /\ Len(p) >= 1
  /\ Len(p) <= MaxDepth
  /\ \A k \in 1..Len(p) : ~IsFile(f, Prefix(p, k))

\* fs::create_dir_all(p) stopped after creating the first k components of p
CreateDirUpTo(f, p, k) == Put(f, { Prefix(p, j) : j \in 1..k } \ DOMAIN f, DirNode)

\* fs::create_dir_all(p), succeeding
CreateDirAll(f, p) == CreateDirUpTo(f, p, Len(p))

\* the file systems a failed fs::create_dir_all(p) can leave: some leading components created
CreateDirAllFailed(f, p) ==
  { CreateDirUpTo(f, p, k) : k \in { j \in 0..(Len(p) - 1) : j <= MaxDepth /\ \A i \in 1..j : ~IsFile(f, Prefix(p, i)) } }

\* fs::copy(src, dst) can succeed
CanCopy(f, src, dst) ==
  /\ IsFile(f, src)
  /\ Len(dst) <= MaxDepth
  /\ ParentIsDir(f, dst)
  /\ ~IsDir(f, dst)

\* fs::copy(src, dst), succeeding: dst is created or overwritten with src's data
CopyFile(f, src, dst) == Put(f, {dst}, FileNode(f[src].data))

\* the data of a file whose write was cut short
Truncated == <<>>

\* the file systems a failed fs::copy / fs::write to dst can leave: dst untouched, or cut short
WriteFailed(f, dst) ==
  {f} \cup IF Len(dst) <= MaxDepth /\ ParentIsDir(f, dst) /\ ~IsDir(f, dst)
           THEN { Put(f, {dst}, FileNode(Truncated)) }
           ELSE {}

\* the paths of the tree rooted at p
Tree(f, p) == { q \in DOMAIN f : q = p \/ IsUnder(q, p) }

\* fs::remove_dir_all(p), succeeding
RemoveDirAll(f, p) == Drop(f, Tree(f, p))

\* the file systems a failed fs::remove_dir_all(p) can leave: p itself stays, and
\* what is gone is closed under descendants
RemoveDirAllFailed(f, p) ==
  { Drop(f, gone) : gone \in { g \in SUBSET (Tree(f, p) \ {p}) :
                               \A q \in g : \A r \in DOMAIN f : IsUnder(r, q) => r \in g } }

\* fs::remove_file(p), succeeding
RemoveFile(f, p) == Drop(f, {p})

-----------------------------------------------------------------------------
(* read_dir iterators: the names of the directory when it was opened that  *)
(* the loop has not been given yet.  The listing is the one read when the   *)
(* directory is opened; entries created later are not part of it.           *)

OpenDir(f, p) == ChildNames(f, p)

IterCandidates(it) == it

IterAtEnd(it) == it = {}

IterTake(it, name) == it \ {name}

NoIter == {}

-----------------------------------------------------------------------------
(* move_data and copy_dir_all *)

storeVars == <<ret, temp, iconCall>>

\* move_data as it would be without its old_p.exists() check; C3 does not hold of it
NoOpWithoutExistsCheck(old, new, f) == old = new \/ old = <<>> \/ new = <<>>

\* the early returns of move_data: equal or empty arguments, or old_p does not exist
NoOp(old, new, f) == old = new \/ old = <<>> \/ new = <<>> \/ ~Exists(f, old)

\* the loop skips the entry named config.json
Skipped(name) == name = "config.json"

\* a frame of copy_dir_all(src, dst): before its create_dir_all/read_dir ("enter"),
\* or inside its for loop ("iter")
Frame(src, dst) == [src |-> src, dst |-> dst, phase |-> "enter", it |-> NoIter]

Top == stack[Len(stack)]

Pop(s) == SubSeq(s, 1, Len(s) - 1)

\* move_data returns r
Return(r) ==
  /\ result' = r
  /\ failures' = IF r = "Ok" THEN failures ELSE failures + 1
  /\ pc' = "done"
  /\ stack' = <<>>
  /\ iter' = NoIter
  /\ entry' = ""

\* move_data is invoked: the three early returns, then the creation of new_p and
\* the opening of read_dir(old_p)
MoveBegin ==
  /\ pc \in {"idle", "done"}
  /\ calls < MaxCalls
  /\ calls' = calls + 1
  /\ fsCall' = fs
  /\ UNCHANGED <<old_path, new_path, fs0>>
  /\ UNCHANGED storeVars
  /\ IF NoOp(old_path, new_path, fs)
     THEN Return("Ok") /\ fs' = fs
     ELSE \/ /\ ~Exists(fs, new_path)
             /\ fs' \in CreateDirAllFailed(fs, new_path)
             /\ Return("Failed to create new directory")
          \/ /\ Exists(fs, new_path) \/ CanCreateDirAll(fs, new_path)
             /\ fs' = IF Exists(fs, new_path) THEN fs ELSE CreateDirAll(fs, new_path)
             /\ \/ Return("Failed to read old directory")
                \/ /\ IsDir(fs, old_path)
                   /\ iter' = OpenDir(fs', old_path)
                   /\ pc' = "loop"
                   /\ UNCHANGED <<stack, entry, result, failures>>

\* the for loop of move_data has no entry left: Ok(())
MoveEnd ==
  /\ pc = "loop"
  /\ IterAtEnd(iter)
  /\ Return("Ok")
  /\ UNCHANGED <<fs, old_path, new_path, calls, fsCall, fs0>>
  /\ UNCHANGED storeVars

\* one turn of the for loop of move_data up to and including the copy: the entry is
\* read, config.json is skipped, a directory starts copy_dir_all, a file is copied
MoveNext ==
  /\ pc = "loop"
  /\ UNCHANGED <<old_path, new_path, calls, fsCall, fs0>>
  /\ UNCHANGED storeVars
  /\ \/ /\ IterCandidates(iter) # {}
        /\ fs' = fs
        /\ Return("Failed to read entry")
     \/ \E name \in IterCandidates(iter) :
          LET path == Join(old_path, name)
              dest == Join(new_path, name)
          IN IF Skipped(name)
             THEN /\ iter' = IterTake(iter, name)
                  /\ UNCHANGED <<fs, pc, stack, entry, result, failures>>
             ELSE IF IsDir(fs, path)
             THEN /\ iter' = IterTake(iter, name)
                  /\ entry' = name
                  /\ stack' = <<Frame(path, dest)>>
                  /\ pc' = "copy"
                  /\ UNCHANGED <<fs, result, failures>>
             ELSE \/ /\ CanCopy(fs, path, dest)
                     /\ fs' = CopyFile(fs, path, dest)
                     /\ iter' = IterTake(iter, name)
                     /\ entry' = name
                     /\ pc' = "rmfile"
                     /\ UNCHANGED <<stack, result, failures>>
                  \/ /\ fs' \in (IF IsFile(fs, path) THEN WriteFailed(fs, dest) ELSE {fs})
                     /\ Return("Failed to copy file")

\* copy_dir_all: fs::create_dir_all(&dst)?, then fs::read_dir(src)?
CopyEnter ==
  /\ pc = "copy"
  /\ Top.phase = "enter"
  /\ UNCHANGED <<old_path, new_path, calls, fsCall, fs0>>
  /\ UNCHANGED storeVars
  /\ \/ /\ fs' \in CreateDirAllFailed(fs, Top.dst)
        /\ Return("Failed to copy directory")
     \/ /\ CanCreateDirAll(fs, Top.dst)
        /\ fs' = CreateDirAll(fs, Top.dst)
        /\ \/ Return("Failed to copy directory")
           \/ /\ IsDir(fs, Top.src)
              /\ stack' = [stack EXCEPT ![Len(stack)] =
                             [@ EXCEPT !.phase = "iter", !.it = OpenDir(fs', Top.src)]]
              /\ UNCHANGED <<pc, iter, entry, result, failures>>

\* copy_dir_all: one turn of its for loop: a directory recurses, a file is copied
CopyNext ==
  /\ pc = "copy"
  /\ Top.phase = "iter"
  /\ UNCHANGED <<old_path, new_path, calls, fsCall, fs0>>
  /\ UNCHANGED storeVars
  /\ \/ /\ IterCandidates(Top.it) # {}
        /\ fs' = fs
        /\ Return("Failed to copy directory")
     \/ \E name \in IterCandidates(Top.it) :
          LET from == Join(Top.src, name)
              to   == Join(Top.dst, name)
              here == [stack EXCEPT ![Len(stack)] = [@ EXCEPT !.it = IterTake(@, name)]]
          IN IF IsDir(fs, from)
             THEN /\ stack' = Append(here, Frame(from, to))
                  /\ UNCHANGED <<fs, pc, iter, entry, result, failures>>
             ELSE \/ /\ CanCopy(fs, from, to)
                     /\ fs' = CopyFile(fs, from, to)
                     /\ stack' = here
                     /\ UNCHANGED <<pc, iter, entry, result, failures>>
                  \/ /\ fs' \in (IF IsFile(fs, from) THEN WriteFailed(fs, to) ELSE {fs})
                     /\ Return("Failed to copy directory")

\* copy_dir_all: its for loop has no entry left: Ok(()); the outermost call
\* returns to move_data, which goes on to remove the old directory
CopyReturn ==
  /\ pc = "copy"
  /\ Top.phase = "iter"
  /\ IterAtEnd(Top.it)
  /\ stack' = Pop(stack)
  /\ pc' = IF Len(stack) = 1 THEN "rmdir" ELSE "copy"
  /\ UNCHANGED <<fs, old_path, new_path, iter, entry, result, failures, calls, fsCall, fs0>>
  /\ UNCHANGED storeVars

\* move_data: fs::remove_dir_all(&path) after the directory was copied
MoveRemoveDir ==
  /\ pc = "rmdir"
  /\ UNCHANGED <<old_path, new_path, calls, fsCall, fs0>>
  /\ UNCHANGED storeVars
  /\ LET path == Join(old_path, entry)
     IN \/ /\ IsDir(fs, path)
           /\ fs' = RemoveDirAll(fs, path)
           /\ pc' = "loop"
           /\ entry' = ""
           /\ UNCHANGED <<iter, stack, result, failures>>
        \/ /\ fs' \in (IF IsDir(fs, path) THEN RemoveDirAllFailed(fs, path) ELSE {fs})
           /\ Return("Failed to remove old directory")

\* move_data: fs::remove_file(&path) after the file was copied
MoveRemoveFile ==
  /\ pc = "rmfile"
  /\ UNCHANGED <<old_path, new_path, calls, fsCall, fs0>>
  /\ UNCHANGED storeVars
  /\ LET path == Join(old_path, entry)
     IN \/ /\ IsFile(fs, path)
           /\ fs' = RemoveFile(fs, path)
           /\ pc' = "loop"
           /\ entry' = ""
           /\ UNCHANGED <<iter, stack, result, failures>>
        \/ /\ fs' = fs
           /\ Return("Failed to remove old file")

-----------------------------------------------------------------------------
(* The directory trees and the arguments move_data is checked on *)

\* the pairs (old_path, new_path): empty and equal arguments, a missing old root,
\* unrelated roots, the new root inside the old one, the old root inside the new one
RootPairs ==
  { << <<>>, <<"n">> >>,
    << <<"o">>, <<>> >>,
    << <<"o">>, <<"o">> >>,
    << <<"m">>, <<"n">> >>,
    << <<"o">>, <<"n">> >>,
    << <<"o">>, <<"o", "a">> >>,
    << <<"n", "a">>, <<"n">> >> }

\* where the data directory lies for a pair
DataRoot(old) == IF old = <<"n", "a">> THEN old ELSE <<"o">>

\* the files a data directory may hold, relative to it, with their data
RelFiles ==
  { << <<"f">>, <<"1">> >>,
    << <<"config.json">>, <<"1">> >>,
    << <<"a", "f">>, <<"2">> >>,
    << <<"a", "config.json">>, <<"2">> >>,
    << <<"a", "s", "g">>, <<"1">> >> }

\* the files tried for a pair: with one root inside the other the copies multiply
\* (the runaway copy of a new root inside the old one copies every file at every
\* depth), so nested roots are tried on the smaller trees
RelFilesFor(pair) ==
  IF pair[1] # <<>> /\ IsUnder(pair[2], pair[1])
  THEN { e \in RelFiles : Len(e[1]) <= 2 /\ e[1] # <<"a", "config.json">> }
  ELSE IF pair[2] # <<>> /\ IsUnder(pair[1], pair[2])
  THEN { e \in RelFiles : Len(e[1]) <= 2 }
  ELSE RelFiles

\* what may lie at the new root beforehand: nothing, the empty directory n, a file
\* n/f, or a file n/a where the move wants a directory
PreFiles ==
  { {}, { << <<"n">>, DirNode >> },
    { << <<"n">>, DirNode >>, << <<"n", "f">>, FileNode(<<"2">>) >> },
    { << <<"n">>, DirNode >>, << <<"n", "a">>, FileNode(<<"1">>) >> } }

\* the file system holding the data directory `root` with the files `rel`, and `pre`
MakeFs(root, rel, pre) ==
  LET files == { << root \o e[1], FileNode(e[2]) >> : e \in rel }
      fdom  == { e[1] : e \in files }
      ddom  == UNION { { Prefix(p, k) : k \in 1..(Len(p) - 1) } : p \in fdom }
                 \cup { Prefix(root, k) : k \in 1..Len(root) }
      pdom  == { e[1] : e \in pre } \ (fdom \cup ddom)
  IN [q \in fdom \cup ddom \cup pdom |->
        IF q \in fdom THEN (CHOOSE e \in files : e[1] = q)[2]
        ELSE IF q \in ddom THEN DirNode
        ELSE (CHOOSE e \in pre : e[1] = q)[2]]

NoRet == [op |-> "none"]

StoreIdle ==
  /\ ret = NoRet
  /\ temp = {}
  /\ iconCall = [none |-> TRUE]

Init ==
  /\ \E pair \in RootPairs :
     \E rel \in SUBSET RelFilesFor(pair), pre \in PreFiles :
       /\ old_path = pair[1]
       /\ new_path = pair[2]
       /\ fs = MakeFs(DataRoot(pair[1]), rel, pre)
  /\ fs0 = fs
  /\ fsCall = fs
  /\ pc = "idle"
  /\ iter = NoIter
  /\ entry = ""
  /\ stack = <<>>
  /\ result = "none"
  /\ calls = 0
  /\ failures = 0
  /\ StoreIdle

Next ==
  \/ MoveBegin
  \/ MoveNext
  \/ MoveEnd
  \/ CopyEnter
  \/ CopyNext
  \/ CopyReturn
  \/ MoveRemoveDir
  \/ MoveRemoveFile

Spec == Init /\ [][Next]_vars

-----------------------------------------------------------------------------
(* Properties of move_data *)

\* the path of q relative to root
Rel(q, root) == SubSeq(q, Len(root) + 1, Len(q))

\* the entries of old's tree that a move relocates: all but the top-level config.json
MovedPaths(f, old) == { q \in DOMAIN f : IsUnder(q, old) /\ ~Skipped(q[Len(old) + 1]) }

\* neither root lies inside the other
Unrelated(old, new) == old # new /\ ~IsUnder(old, new) /\ ~IsUnder(new, old)

\* the file system the description of the move calls fully migrated: new exists,
\* every relocated entry of f lies under new at its relative path and not under old
Migrated(f, old, new) ==
  LET g     == IF Exists(f, new) THEN f ELSE CreateDirAll(f, new)
      moved == MovedPaths(f, old)
      to(q) == new \o Rel(q, old)
      dest  == { to(q) : q \in moved }
  IN [p \in (DOMAIN g \ moved) \cup dest |->
        IF p \in dest THEN f[CHOOSE q \in moved : to(q) = p] ELSE g[p]]

\* C1: a successful move_data between distinct, non-empty roots, the old one existing,
\* leaves every entry that was under old_root (but the top-level config.json) under
\* new_root at the same relative path, as the same kind of entry, and not under old_root.
C1_MoveRelocatesEveryEntry ==
  (/\ pc = "done" /\ result = "Ok"
   /\ old_path # new_path /\ old_path # <<>> /\ new_path # <<>>
   /\ Exists(fsCall, old_path))
  => \A q \in MovedPaths(fsCall, old_path) :
       /\ Exists(fs, new_path \o Rel(q, old_path))
       /\ fs[new_path \o Rel(q, old_path)].kind = fsCall[q].kind
       /\ ~Exists(fs, q)

\* C1 for roots neither of which lies inside the other
C1_UnrelatedRoots == Unrelated(old_path, new_path) => C1_MoveRelocatesEveryEntry

\* C2: during and after move_data, a file old_root/config.json that existed when the
\* call began, with no new_root/config.json, is still there with its data, and
\* new_root/config.json still does not exist.
C2_ConfigNeverMoved ==
  (/\ calls >= 1
   /\ IsFile(fsCall, Join(old_path, "config.json"))
   /\ ~Exists(fsCall, Join(new_path, "config.json")))
  => /\ IsFile(fs, Join(old_path, "config.json"))
     /\ fs[Join(old_path, "config.json")] = fsCall[Join(old_path, "config.json")]
     /\ ~Exists(fs, Join(new_path, "config.json"))

\* C2 for roots neither of which lies inside the other
C2_UnrelatedRoots == Unrelated(old_path, new_path) => C2_ConfigNeverMoved

\* C3: in the no-op cases (equal roots, an empty root, old root missing) move_data
\* returns Ok and the file system is what it was when the call began; in particular
\* the new root is not created.
C3_NoOpLeavesFileSystem ==
  (/\ pc = "done"
   /\ \/ old_path = new_path
      \/ old_path = <<>>
      \/ new_path = <<>>
      \/ ~Exists(fsCall, old_path))
  => result = "Ok" /\ fs = fsCall

\* a call with a missing old root has returned and the new root was not created
C3_Witness ==
  /\ pc = "done"
  /\ old_path # <<>> /\ old_path # new_path
  /\ ~Exists(fsCall, old_path)
  /\ ~Exists(fs, new_path)
  /\ DOMAIN fs # {}

\* C4: once an invocation that follows a failed one returns Ok, the file system is
\* the fully migrated one of the tree the first invocation started from.
C4_RetryConverges ==
  (/\ pc = "done" /\ result = "Ok" /\ failures >= 1
   /\ ~NoOp(old_path, new_path, fs0))
  => fs = Migrated(fs0, old_path, new_path)

\* C4 for roots neither of which lies inside the other
C4_UnrelatedRoots == Unrelated(old_path, new_path) => C4_RetryConverges

\* C9: in every state during and after a move_data, every file that was under
\* old_root when the call began is, with its data, still at its place or at the
\* same relative path under new_root.
C9_NoFileLost ==
  calls >= 1 =>
    \A q \in { r \in DOMAIN fsCall : IsUnder(r, old_path) /\ IsFile(fsCall, r) } :
      \/ IsFile(fs, q) /\ fs[q].data = fsCall[q].data
      \/ /\ IsFile(fs, new_path \o Rel(q, old_path))
         /\ fs[new_path \o Rel(q, old_path)].data = fsCall[q].data

\* C9 for roots neither of which lies inside the other
C9_UnrelatedRoots == Unrelated(old_path, new_path) => C9_NoFileLost

\* C10: copy_dir_all visits a finite number of directories because the tree is
\* finite: every directory it is called on is a directory of the tree as it stood
\* when move_data was invoked, or the new root that move_data created.
C10_CopyVisitsOnlyTheGivenTree ==
  \A i \in 1..Len(stack) : IsDir(fsCall, stack[i].src) \/ stack[i].src = new_path

\* C10 for roots neither of which lies inside the other
C10_UnrelatedRoots == Unrelated(old_path, new_path) => C10_CopyVisitsOnlyTheGivenTree

-----------------------------------------------------------------------------
(* The JSON stores: todos.json, <uuid>/content.json, config.json *)

\* How many TodoItems a saved list holds at most.
MaxTodos == 2

\* a byte that is not valid UTF-8: fs::read_to_string fails on a file holding one
BadByte == "0xFF"

Quote == "\""

Backslash == "\\"

Newline == "\n"

\* the data_path argument of the store commands
DataPath == <<"d">>

\* handle.path().app_config_dir()
ConfigDir == <<"c">>

\* the folder names Uuid::new_v4() can draw
UUIDs == {"u1", "u2", "u3"}

RECURSIVE Concat(_)
\* the concatenation of a sequence of sequences
Concat(ss) == IF ss = <<>> THEN <<>> ELSE Head(ss) \o Concat(Tail(ss))

\* fs::read_to_string(p): Err unless p is a file of valid UTF-8
ReadToString(f, p) ==
  IF IsFile(f, p) /\ \A i \in 1..Len(f[p].data) : f[p].data[i] # BadByte
  THEN [ok |-> TRUE, val |-> f[p].data]
  ELSE [ok |-> FALSE, val |-> <<>>]

\* fs::write(p, data) can succeed
CanWrite(f, p) == Len(p) <= MaxDepth /\ ParentIsDir(f, p) /\ ~IsDir(f, p)

\* fs::write(p, data), succeeding: p is created or replaced
WriteFile(f, p, data) == Put(f, {p}, FileNode(data))

\* a writer that escapes nothing; C8 does not hold of it
EscapeNothing(c) == <<c>>

\* serde_json writes a string: quoted, with ", \ and control characters escaped
EscapeChar(c) ==
  IF c = Quote THEN <<Backslash, Quote>>
  ELSE IF c = Backslash THEN <<Backslash, Backslash>>
  ELSE IF c = Newline THEN <<Backslash, "n">>
  ELSE <<c>>

JsonString(str) == <<Quote>> \o Concat([i \in 1..Len(str) |-> EscapeChar(str[i])]) \o <<Quote>>

\* the field names of TodoItem, in declaration order
KeyId == <<"i", "d">>

KeyTitle == <<"t", "i", "t", "l", "e">>

KeyStatus == <<"s", "t", "a", "t", "u", "s">>

KeyFolderName == <<"f", "o", "l", "d", "e", "r", "_", "n", "a", "m", "e">>

\* serde_json::to_string of one TodoItem
JsonItem(item) ==
  <<"{">> \o JsonString(KeyId) \o <<":">> \o JsonString(item.id)
  \o <<",">> \o JsonString(KeyTitle) \o <<":">> \o JsonString(item.title)
  \o <<",">> \o JsonString(KeyStatus) \o <<":">> \o JsonString(item.status)
  \o <<",">> \o JsonString(KeyFolderName) \o <<":">> \o JsonString(item.folder_name)
  \o <<"}">>

\* serde_json::to_string(&todos) for a Vec<TodoItem>
ToJson(todos) ==
  <<"[">>
  \o Concat([i \in 1..Len(todos) |-> (IF i = 1 THEN <<>> ELSE <<",">>) \o JsonItem(todos[i])])
  \o <<"]">>

Fail == [ok |-> FALSE]

At(t, i) == IF i <= Len(t) THEN t[i] ELSE "EOF"

RECURSIVE ParseChars(_, _, _)
\* the characters of a JSON string from position i (after the opening quote) up to
\* the closing quote, unescaped
ParseChars(t, i, acc) ==
  IF i > Len(t) THEN Fail
  ELSE IF t[i] = Quote THEN [ok |-> TRUE, val |-> acc, next |-> i + 1]
  ELSE IF t[i] = BadByte \/ t[i] = Newline THEN Fail
  ELSE IF t[i] = Backslash
       THEN IF At(t, i + 1) = Quote THEN ParseChars(t, i + 2, Append(acc, Quote))
            ELSE IF At(t, i + 1) = Backslash THEN ParseChars(t, i + 2, Append(acc, Backslash))
            ELSE IF At(t, i + 1) = "n" THEN ParseChars(t, i + 2, Append(acc, Newline))
            ELSE Fail
  ELSE ParseChars(t, i + 1, Append(acc, t[i]))

\* a JSON string at position i
ParseString(t, i) == IF At(t, i) = Quote THEN ParseChars(t, i + 1, <<>>) ELSE Fail

ItemKeys == {KeyId, KeyTitle, KeyStatus, KeyFolderName}

RECURSIVE ParseFields(_, _, _)
\* the "key":"value" pairs of an object from position i up to its closing brace:
\* fields in any order, unknown keys ignored, a repeated field refused
ParseFields(t, i, got) ==
  LET k == ParseString(t, i)
  IN IF ~k.ok \/ At(t, k.next) # ":" THEN Fail
     ELSE LET v == ParseString(t, k.next + 1)
          IN IF ~v.ok \/ (k.val \in DOMAIN got) THEN Fail
             ELSE LET more == IF k.val \in ItemKeys
                              THEN [x \in DOMAIN got \cup {k.val} |-> IF x = k.val THEN v.val ELSE got[x]]
                              ELSE got
                  IN IF At(t, v.next) = "," THEN ParseFields(t, v.next + 1, more)
                     ELSE IF At(t, v.next) = "}" THEN [ok |-> TRUE, val |-> more, next |-> v.next + 1]
                     ELSE Fail

\* a TodoItem at position i: an object holding all four fields
ParseItem(t, i) ==
  IF At(t, i) # "{" THEN Fail
  ELSE LET fields == ParseFields(t, i + 1, <<>>)
       IN IF ~fields.ok \/ DOMAIN fields.val # ItemKeys THEN Fail
          ELSE [ok |-> TRUE, next |-> fields.next,
                val |-> [id |-> fields.val[KeyId], title |-> fields.val[KeyTitle],
                         status |-> fields.val[KeyStatus],
                         folder_name |-> fields.val[KeyFolderName]]]

RECURSIVE ParseItems(_, _, _)
\* the items of an array from position i up to its closing bracket
ParseItems(t, i, acc) ==
  LET item == ParseItem(t, i)
  IN IF ~item.ok THEN Fail
     ELSE IF At(t, item.next) = "," THEN ParseItems(t, item.next + 1, Append(acc, item.val))
     ELSE IF At(t, item.next) = "]"
          THEN [ok |-> TRUE, val |-> Append(acc, item.val), next |-> item.next + 1]
     ELSE Fail

\* serde_json::from_str::<Vec<TodoItem>>(&content): the whole text is one array
FromJson(t) ==
  IF At(t, 1) # "[" THEN Fail
  ELSE LET r == IF At(t, 2) = "]" THEN [ok |-> TRUE, val |-> <<>>, next |-> 3]
                ELSE ParseItems(t, 2, <<>>)
       IN IF r.ok /\ r.next = Len(t) + 1 THEN r ELSE Fail

-----------------------------------------------------------------------------
(* The store commands *)

moveIdle == <<pc, old_path, new_path, iter, entry, stack, result, calls, failures, fsCall, fs0>>

TodosPath == Join(DataPath, "todos.json")

ConfigPath == Join(ConfigDir, "config.json")

DetailPath(folder_name) == Join(Join(DataPath, folder_name), "content.json")

\* default_config(handle)
DefaultConfig ==
  [data_path |-> "app_data_dir", language |-> "zh-CN", theme |-> "light",
   font_family |-> "Arial", font_size |-> 14, text_color_light |-> "#333333",
   text_color_dark |-> "#e5e5e5", launch_at_login |-> FALSE]

\* the configurations save_app_config is given
Configs == { DefaultConfig,
             [DefaultConfig EXCEPT !.data_path = "d", !.theme = "dark", !.launch_at_login = TRUE] }

\* serde_json::to_string(&config), field by field
ConfigJson(c) ==
  <<"{", c.data_path, c.language, c.theme, c.font_family, ToString(c.font_size),
    c.text_color_light, c.text_color_dark, ToString(c.launch_at_login), "}">>

\* serde_json::from_str::<AppConfig>(&content)
ConfigFromJson(t) ==
  IF \E c \in Configs : ConfigJson(c) = t
  THEN [ok |-> TRUE, val |-> CHOOSE c \in Configs : ConfigJson(c) = t]
  ELSE Fail

\* what a command returned: Ok(val), Err, or a panic
Returned(op, kind, val) == [op |-> op, kind |-> kind, val |-> val]

\* get_app_config: the defaults unless config.json exists, reads and parses
get_app_config(f) ==
  IF ~Exists(f, ConfigPath) THEN Returned("get_app_config", "ok", DefaultConfig)
  ELSE LET content == ReadToString(f, ConfigPath)
       IN IF ~content.ok THEN Returned("get_app_config", "ok", DefaultConfig)
          ELSE LET parsed == ConfigFromJson(content.val)
               IN Returned("get_app_config", "ok", IF parsed.ok THEN parsed.val ELSE DefaultConfig)

\* get_todos: [] unless todos.json exists; its read is unwrapped; [] when it does not parse
get_todos(f) ==
  IF Exists(f, TodosPath)
  THEN LET content == ReadToString(f, TodosPath)
       IN IF ~content.ok THEN Returned("get_todos", "panic", <<>>)
          ELSE LET parsed == FromJson(content.val)
               IN Returned("get_todos", "ok", IF parsed.ok THEN parsed.val ELSE <<>>)
  ELSE Returned("get_todos", "ok", <<>>)

\* get_todo_detail: "{}" unless content.json exists; its read error is returned
get_todo_detail(f, folder_name) ==
  IF Exists(f, DetailPath(folder_name))
  THEN LET content == ReadToString(f, DetailPath(folder_name))
       IN IF content.ok THEN Returned("get_todo_detail", "ok", content.val)
          ELSE Returned("get_todo_detail", "err", <<>>)
  ELSE Returned("get_todo_detail", "ok", <<"{", "}">>)

GetAppConfig ==
  /\ ret' = get_app_config(fs)
  /\ UNCHANGED <<fs, temp, iconCall>>
  /\ UNCHANGED moveIdle

GetTodos ==
  /\ ret' = get_todos(fs)
  /\ UNCHANGED <<fs, temp, iconCall>>
  /\ UNCHANGED moveIdle

GetTodoDetail ==
  /\ \E folder_name \in UUIDs : ret' = get_todo_detail(fs, folder_name)
  /\ UNCHANGED <<fs, temp, iconCall>>
  /\ UNCHANGED moveIdle

\* the common shape of save_app_config and save_todos: create the directory if it
\* is missing, then write the file; every failure is returned as Err.  What was
\* to be saved (arg) is kept beside the outcome.
SaveInto(op, dir, path, content, arg) ==
  \/ /\ ~Exists(fs, dir)
     /\ fs' \in CreateDirAllFailed(fs, dir)
     /\ ret' = Returned(op, "err", arg)
  \/ /\ Exists(fs, dir) \/ CanCreateDirAll(fs, dir)
     /\ LET f1 == IF Exists(fs, dir) THEN fs ELSE CreateDirAll(fs, dir)
        IN \/ /\ fs' \in WriteFailed(f1, path)
              /\ ret' = Returned(op, "err", arg)
           \/ /\ CanWrite(f1, path)
              /\ fs' = WriteFile(f1, path, content)
              /\ ret' = Returned(op, "ok", arg)

SaveAppConfig ==
  /\ \E config \in Configs : SaveInto("save_app_config", ConfigDir, ConfigPath, ConfigJson(config), config)
  /\ UNCHANGED <<temp, iconCall>>
  /\ UNCHANGED moveIdle

\* the TodoItems the lists are made of: quotes, backslashes, line breaks and
\* JSON punctuation inside the strings
Items ==
  { [id |-> <<"1">>, title |-> <<"a", Quote, Backslash>>, status |-> <<>>, folder_name |-> <<"u", "1">>],
    [id |-> <<"2">>, title |-> <<",", "}", "]", Newline>>, status |-> <<Backslash, "n">>, folder_name |-> <<"{", Quote, ":">>] }

RECURSIVE SeqsUpTo(_, _)
\* the sequences over S of length at most n
SeqsUpTo(S, n) ==
  IF n = 0 THEN {<<>>}
  ELSE LET shorter == SeqsUpTo(S, n - 1)
       IN shorter \cup { Append(q, x) : q \in { r \in shorter : Len(r) = n - 1 }, x \in S }

TodoLists == SeqsUpTo(Items, MaxTodos)

SaveTodos ==
  /\ \E todos \in TodoLists : SaveInto("save_todos", DataPath, TodosPath, ToJson(todos), todos)
  /\ UNCHANGED <<temp, iconCall>>
  /\ UNCHANGED moveIdle

\* create_todo_folder: a fresh UUID, the folder, then its assets directory
CreateTodoFolder ==
  /\ \E folder_name \in { u \in UUIDs : ~Exists(fs, Join(DataPath, u)) } :
       LET folder_path == Join(DataPath, folder_name)
       IN \/ /\ fs' \in CreateDirAllFailed(fs, folder_path)
             /\ ret' = Returned("create_todo_folder", "err", "")
          \/ /\ CanCreateDirAll(fs, folder_path)
             /\ LET f1 == CreateDirAll(fs, folder_path)
                IN \/ /\ fs' \in CreateDirAllFailed(f1, Join(folder_path, "assets"))
                      /\ ret' = Returned("create_todo_folder", "err", "")
                   \/ /\ CanCreateDirAll(f1, Join(folder_path, "assets"))
                      /\ fs' = CreateDirAll(f1, Join(folder_path, "assets"))
                      /\ ret' = Returned("create_todo_folder", "ok", folder_name)
  /\ UNCHANGED <<temp, iconCall>>
  /\ UNCHANGED moveIdle

\* the detail documents save_todo_detail is given (opaque to this layer)
Details == { <<"{", Quote, "k", Quote, ":", "1", "}">> }

\* save_todo_detail: one fs::write, its failure returned as Err
SaveTodoDetail ==
  /\ \E folder_name \in UUIDs, content \in Details :
       \/ /\ fs' \in WriteFailed(fs, DetailPath(folder_name))
          /\ ret' = Returned("save_todo_detail", "err", <<>>)
       \/ /\ CanWrite(fs, DetailPath(folder_name))
          /\ fs' = WriteFile(fs, DetailPath(folder_name), content)
          /\ ret' = Returned("save_todo_detail", "ok", <<>>)
  /\ UNCHANGED <<temp, iconCall>>
  /\ UNCHANGED moveIdle

\* the data directory before the first command: missing, empty, or holding an
\* index that is not UTF-8, is cut short, holds another list, or is a directory
InitialIndex ==
  LET d == { << DataPath, DirNode >> }
  IN { {}, d,
       d \cup { << TodosPath, FileNode(<<BadByte>>) >> },
       d \cup { << TodosPath, FileNode(<<"[", "{">>) >> },
       d \cup { << TodosPath, FileNode(ToJson(<<CHOOSE x \in Items : TRUE>>)) >> },
       d \cup { << TodosPath, DirNode >> } }

\* the todo folders before the first command: none, or u1 with its assets and
\* possibly a detail document, readable or not
InitialFolders ==
  LET d  == { << DataPath, DirNode >> }
      u1 == d \cup { << Join(DataPath, "u1"), DirNode >>,
                     << Join(Join(DataPath, "u1"), "assets"), DirNode >> }
  IN { {}, d, u1,
       u1 \cup { << DetailPath("u1"), FileNode(<<"{", "}">>) >> },
       u1 \cup { << DetailPath("u1"), FileNode(<<"{", BadByte>>) >> } }

\* the configuration before the first command: missing, not UTF-8, not JSON, or valid
InitialConfig ==
  LET c == { << ConfigDir, DirNode >> }
  IN { {}, c,
       c \cup { << ConfigPath, FileNode(<<BadByte>>) >> },
       c \cup { << ConfigPath, FileNode(<<"{">>) >> },
       c \cup { << ConfigPath, FileNode(ConfigJson(CHOOSE x \in Configs : x # DefaultConfig)) >> } }

\* the file system holding exactly the listed (path, node) pairs
FsOf(pairs) == [q \in { e[1] : e \in pairs } |-> (CHOOSE e \in pairs : e[1] = q)[2]]

MoveIdle ==
  /\ pc = "idle"
  /\ old_path = <<>>
  /\ new_path = <<>>
  /\ iter = NoIter
  /\ entry = ""
  /\ stack = <<>>
  /\ result = "none"
  /\ calls = 0
  /\ failures = 0
  /\ fsCall = fs
  /\ fs0 = fs

\* save_todos and get_todos on one data directory
TodoInit ==
  /\ fs \in { FsOf(pairs) : pairs \in InitialIndex }
  /\ MoveIdle
  /\ StoreIdle

TodoNext ==
  \/ SaveTodos
  \/ GetTodos

TodoSpec == TodoInit /\ [][TodoNext]_vars

\* create_todo_folder, save_todo_detail and get_todo_detail on one data directory
FolderInit ==
  /\ fs \in { FsOf(pairs) : pairs \in InitialFolders }
  /\ MoveIdle
  /\ StoreIdle

FolderNext ==
  \/ CreateTodoFolder
  \/ SaveTodoDetail
  \/ GetTodoDetail

FolderSpec == FolderInit /\ [][FolderNext]_vars

\* the three reads that substitute a default, on every state of what they read
ReadInit ==
  /\ fs \in { FsOf(i \cup t \cup c) : i \in InitialIndex, t \in InitialFolders, c \in InitialConfig }
  /\ MoveIdle
  /\ StoreIdle

ReadNext ==
  \/ GetAppConfig
  \/ SaveAppConfig
  \/ GetTodos
  \/ GetTodoDetail

ReadSpec == ReadInit /\ [][ReadNext]_vars

-----------------------------------------------------------------------------
(* Properties of the stores *)

\* C5: every todo folder has its assets/ subdirectory, whatever create_todo_folder
\* returned (the folder and assets/ come into existence together).
C5_FolderAlwaysHasAssets ==
  \A u \in UUIDs :
    IsDir(fs, Join(DataPath, u)) => IsDir(fs, Join(Join(DataPath, u), "assets"))

\* C6: get_app_config, get_todos and get_todo_detail return a value in every state
\* of what they read; none returns an error or panics.
C6_SoftReadsNeverFail ==
  ret.op \in {"get_app_config", "get_todos", "get_todo_detail"} => ret.kind = "ok"

\* C8: right after a save_todos that returned Ok, get_todos returns the saved list:
\* same items, same length, same order.
C8_SaveThenGetRoundTrip ==
  (ret.op = "save_todos" /\ ret.kind = "ok")
  => get_todos(fs) = Returned("get_todos", "ok", ret.val)

\* a list of two equal items, with quotes and backslashes in them, was saved into a
\* data directory and is read back
C8_Witness ==
  /\ ret.op = "save_todos" /\ ret.kind = "ok"
  /\ Len(ret.val) = 2 /\ ret.val[1] = ret.val[2]
  /\ \E i \in 1..Len(ret.val[1].title) : ret.val[1].title[i] = Quote
  /\ get_todos(fs).val = ret.val

-----------------------------------------------------------------------------
(* get_file_icon *)

\* how many characters of the extension are kept: .take(20)
MaxExtLen == 20

IsSpace(c) == c \in {" ", Newline}

RECURSIVE TrimStart(_)
TrimStart(str) == IF str # <<>> /\ IsSpace(Head(str)) THEN TrimStart(Tail(str)) ELSE str

RECURSIVE TrimEnd(_)
TrimEnd(str) ==
  IF str # <<>> /\ IsSpace(str[Len(str)]) THEN TrimEnd(SubSeq(str, 1, Len(str) - 1)) ELSE str

\* str::trim
Trim(str) == TrimEnd(TrimStart(str))

\* char::to_lowercase on the letters used
LowerChar(c) == IF c = "P" THEN "p" ELSE IF c = "N" THEN "n" ELSE IF c = "G" THEN "g" ELSE c

ToLowercase(str) == [i \in 1..Len(str) |-> LowerChar(str[i])]

\* c.is_ascii_alphanumeric() || c == '.'
IsSafeChar(c) == c \in {"a", "p", "n", "g", "t", "x", "7", "P", "N", "G", "."}

\* .chars().take(20).filter(..).collect()
SafeExt(extension) ==
  LET ext  == ToLowercase(Trim(extension))
      kept == SubSeq(ext, 1, IF Len(ext) < MaxExtLen THEN Len(ext) ELSE MaxExtLen)
  IN SelectSeq(kept, IsSafeChar)

\* the extensions get_file_icon is called with
Extensions ==
  { <<>>, <<" ">>, <<"/">>, <<"P", "N", "G">>, <<" ", "t", "x", "t", Newline>>,
    <<"a", "/", "7">>, <<".", "/", ".">>,
    [i \in 1..(MaxExtLen + 2) |-> IF i = MaxExtLen + 1 THEN "x" ELSE "a"] }

\* the placeholder names tauri_icon_dummy.<safe_ext> that can occur, by safe_ext
Placeholders == { SafeExt(e) : e \in Extensions } \ {<<>>}

\* the record of a get_file_icon call: whether the placeholder existed before it,
\* what `created` was, and whether fs::remove_file was called
IconCall(windows, ext, safe, existed, created, removed) ==
  [windows |-> windows, called |-> TRUE, extension |-> ext, safe_ext |-> safe,
   existed |-> existed, created |-> created, removed |-> removed]

\* `created`: File::create(..).ok().map(|_| true) when the placeholder is missing,
\* Some(true) when it is already there
Created(existed, createOk) ==
  IF ~existed THEN (IF createOk THEN "Some(true)" ELSE "None") ELSE "Some(true)"

\* get_file_icon: not on Windows, an empty string; on Windows the placeholder is
\* created if missing, the icon is looked up, the placeholder is removed
GetFileIcon ==
  /\ \E extension \in Extensions, createOk \in BOOLEAN, iconOk \in BOOLEAN, removeOk \in BOOLEAN :
       LET safe == SafeExt(extension)
       IN IF ~iconCall.windows \/ Trim(extension) = <<>> \/ safe = <<>>
          THEN /\ temp' = temp
               /\ ret' = Returned("get_file_icon", "ok", "")
               /\ iconCall' = IconCall(iconCall.windows, extension, <<>>, FALSE, "", FALSE)
          ELSE LET existed == safe \in temp
                   created == Created(existed, createOk)
                   t1      == IF ~existed /\ createOk THEN temp \cup {safe} ELSE temp
                   remove  == created = "Some(true)" /\ safe \in t1
               IN /\ temp' = IF remove /\ removeOk THEN t1 \ {safe} ELSE t1
                  /\ ret' = Returned("get_file_icon", "ok", IF iconOk /\ safe \in t1 THEN "b64" ELSE "")
                  /\ iconCall' = IconCall(TRUE, extension, safe, existed, created, remove)
  /\ UNCHANGED fs
  /\ UNCHANGED moveIdle

\* another program leaves or clears a file of a placeholder's name in the temp directory
TempChanges ==
  /\ \E name \in Placeholders : temp' = IF name \in temp THEN temp \ {name} ELSE temp \cup {name}
  /\ UNCHANGED <<fs, ret, iconCall>>
  /\ UNCHANGED moveIdle

IconInit ==
  /\ fs = <<>>
  /\ MoveIdle
  /\ ret = NoRet
  /\ temp = {}
  /\ iconCall \in { [windows |-> w, called |-> FALSE, extension |-> <<>>, safe_ext |-> <<>>,
                     existed |-> FALSE, created |-> "", removed |-> FALSE] : w \in BOOLEAN }

IconNext ==
  \/ GetFileIcon
  \/ TempChanges

IconSpec == IconInit /\ [][IconNext]_vars

\* C7: after a get_file_icon call that got as far as the placeholder, a placeholder
\* that existed before the call still exists, and one the call created does not.
C7_PlaceholderDeletedOnlyIfCreated ==
  (iconCall.called /\ iconCall.safe_ext # <<>> /\ ret.op = "get_file_icon")
  => /\ iconCall.existed => iconCall.safe_ext \in temp
     /\ (~iconCall.existed /\ iconCall.created = "Some(true)") => iconCall.safe_ext \notin temp

====
